---- MODULE Spec2Model ----
(***************************************************************************)
(* Module-graph construction of the mako bundler                           *)
(* (crates/mako/src/build.rs, Compiler::build_module_graph).               *)
(*                                                                         *)
(* One coordinator drives a queue of Tasks, spawns one pipeline execution  *)
(* (Compiler::build_module) per task, receives the results over an         *)
(* unbounded channel and integrates them into the module graph.            *)
(***************************************************************************)
EXTENDS Naturals, Integers, Sequences, FiniteSets

(***************************************************************************)
(* Bounds of the model.                                                    *)
(***************************************************************************)
\* number of source files of the project (module paths 1..NumModules)
NumModules == 3
\* largest number of import specifiers in the whole project
MaxImports == 2
\* largest number of configured entries
MaxEntries == 2
\* largest number of import specifiers, and of configured entries, in the
\* projects the liveness of the build and its lock are checked on
MaxLiveImports == 2
MaxLiveEntries == 1
\* largest number of import specifiers in the projects with helper injections
MaxHelperImports == 1

\* paths of the project's source files
Modules == 1 .. NumModules
\* specifiers the resolver binds to a runtime global (config.externals)
Externals == {0}
\* every identifier a dependency can resolve to
Targets == Modules \cup Externals

\* Option<T>: None is the empty sequence, Some(x) the one-element sequence
None == << >>
Some(x) == << x >>

\* the global an external specifier is bound to
ExternalName(id) == << "global", id >>

\* struct Task { path, is_entry }
Tasks == [path : Targets, is_entry : BOOLEAN]

SeqsUpTo(S, n) == UNION {[1 .. k -> S] : k \in 0 .. n}

\* the targets module m imports, in source order, in a list of (importer, target)
DepsOf(pairs, m) ==
    LET own == SelectSeq(pairs, LAMBDA p : p[1] = m)
    IN  [i \in 1 .. Len(own) |-> own[i][2]]

\* the import relations of a project with at most n specifiers
ImportRelations(n) ==
    {[m \in Modules |-> DepsOf(pairs, m)] : pairs \in SeqsUpTo(Modules \X Targets, n)}

Range(s) == {s[i] : i \in 1 .. Len(s)}

\* the modules reachable from the paths in S through the import relation f
RECURSIVE Reachable(_, _)
Reachable(S, f) ==
    LET T == S \cup UNION {Range(f[m]) : m \in S \cap Modules}
    IN  IF T = S THEN S ELSE Reachable(T, f)

\* the values of a config.entry map, in the order get_entries lists them: one
\* to k paths, the same path possibly under several names; the files are
\* numbered in the order the list first names them
EntryLists(k) ==
    {s \in SeqsUpTo(Modules, k) :
        /\ s # << >>
        /\ s[1] = 1
        /\ \A i \in 2 .. Len(s) : \E j \in 1 .. i - 1 : s[i] <= s[j] + 1}

VARIABLES
    entries,            \* the entry paths get_entries returned
    imports,            \* file contents: the specifiers of each module, resolved
    failing,            \* the modules whose load / parse / resolve panics
    queue,              \* VecDeque<Task>
    running,            \* spawned pipeline executions that have not finished (a bag)
    chan,               \* the unbounded completion channel (rs -> rr)
    active_task_count,
    module_count,       \* spawned executions, kept per module path
    nodes,              \* module_graph.graph node weights, by node index
    id_index_map,       \* module_graph.id_index_map (0: no node)
    edges,              \* module_graph.graph edges: <<from index, to index, dependency>>
    pc,                 \* position of the coordinator
    config,             \* config.entry (its values), the index files under root, and
                        \* whether root and the entry paths are valid UTF-8
    injected,           \* the runtime helpers the transform of each module injects
    closed,             \* every sender of the channel is dropped
    lock,               \* the holder of context.module_graph's lock
    plugin              \* one call of AssetsPlugin::load: its parameters and result

vars == << entries, imports, failing, queue, running, chan, active_task_count,
           module_count, nodes, id_index_map, edges, pc,
           config, injected, closed, lock, plugin >>

\* what a build reads and never writes
inputs == << entries, imports, failing, config, injected, closed, plugin >>

(***************************************************************************)
(* The module graph.                                                       *)
(***************************************************************************)
\* Module::new(id, is_entry, info)
NewModule(id, is_entry, info) == [id |-> id, is_entry |-> is_entry, info |-> info]

\* The graph is handled as a value g: its nodes, its identifier index, its
\* edges, and the queue the integration step pushes to.
\* has_module: the identifier index knows the identifier
HasModule(g, id) == g.id_index_map[id] # 0

\* add_module: a new node is inserted and the index points to it
AddModule(g, module) ==
    [g EXCEPT !.nodes = Append(@, module),
              !.id_index_map = [@ EXCEPT ![module.id] = Len(g.nodes) + 1]]

\* get_module_mut(id).unwrap().add_info(info)
AddInfo(g, id, info) ==
    [g EXCEPT !.nodes = [@ EXCEPT ![g.id_index_map[id]].info = info]]

\* add_dependency: a new edge between the nodes the index gives
AddDependency(g, from, to, dependency) ==
    [g EXCEPT !.edges = Append(@, << g.id_index_map[from], g.id_index_map[to], dependency >>)]

(***************************************************************************)
(* The build pipeline.                                                     *)
(***************************************************************************)
\* resolve(): (resolved path, external binding)
Resolve(target) ==
    [path |-> target,
     external |-> IF target \in Externals THEN Some(ExternalName(target)) ELSE None,
     dependency |-> target]

\* load: the content of the file at path, as far as the build looks at it:
\* the specifiers it requires and the helpers its syntax makes the transform
\* inject
LoadFile(path) == [path |-> path, requires |-> imports[path], syntax |-> injected[path]]

\* parse: the tree of a content; no helper is referenced before the transform
Parse(content) ==
    [kind |-> "script", requires |-> content.requires, syntax |-> content.syntax,
     helpers |-> << >>]

\* analyze_deps: every specifier the tree references, in source order
AnalyzeDeps(ast) == ast.requires \o ast.helpers

\* transform: the tree rewritten, with the references to the runtime helpers
\* its syntax needs
Transform(ast) == [ast EXCEPT !.helpers = ast.syntax, !.syntax = << >>]

\* add_swc_helper_deps: the helpers the tree references and deps lacks are
\* appended
AddSwcHelperDeps(deps, ast) ==
    deps \o SelectSeq(ast.helpers, LAMBDA h : h \notin Range(deps))

\* build_module with line 175 lost: the dependencies are those of the tree
\* before its transform
BuildModuleNoAugment(task) ==
    LET ast == Parse(LoadFile(task.path))
        deps == AnalyzeDeps(ast)
    IN  [module |-> NewModule(task.path, task.is_entry,
                              Some([ast |-> Transform(ast).kind, path |-> task.path,
                                    external |-> None])),
         deps |-> [i \in 1 .. Len(deps) |-> Resolve(deps[i])],
         task |-> task]

\* Compiler::build_module: load, parse, analyze deps, transform, add the
\* helper deps, resolve
BuildModule(task) ==
    LET content == LoadFile(task.path)
        parsed == Parse(content)
        analyzed == AnalyzeDeps(parsed)
        ast == Transform(parsed)
        deps == AddSwcHelperDeps(analyzed, ast)
    IN  [module |-> NewModule(task.path, task.is_entry,
                              Some([ast |-> ast.kind, path |-> task.path,
                                    external |-> None])),
         deps |-> [i \in 1 .. Len(deps) |-> Resolve(deps[i])],
         task |-> task]

(***************************************************************************)
(* Integration of one result (the Ok arm of try_recv).                     *)
(***************************************************************************)
\* the module of a dependency seen for the first time
ExternalModule(dep) ==
    NewModule(dep.path, FALSE,
              Some([ast |-> "export_wrapper", path |-> dep.path,
                    external |-> Some(dep.external[1])]))

Placeholder(dep) == NewModule(dep.path, FALSE, None)

PushTask(g, dep) ==
    [g EXCEPT !.queue = Append(@, [path |-> dep.path, is_entry |-> FALSE])]

\* IntegrateDep with the is_external branch lost: every unseen target is
\* scheduled like a source file
IntegrateDepNoExternal(g, module_id, dep) ==
    LET g1 == IF ~HasModule(g, dep.path)
              THEN AddModule(PushTask(g, dep), Placeholder(dep))
              ELSE g
    IN  AddDependency(g1, module_id, dep.path, dep.dependency)

\* IntegrateDep with the placeholder insertion of lines 124-128 lost: the
\* task is enqueued and no node reserves its identifier
IntegrateDepNoPlaceholder(g, module_id, dep) ==
    LET g1 == IF ~HasModule(g, dep.path)
              THEN IF dep.external # None
                   THEN AddModule(g, ExternalModule(dep))
                   ELSE PushTask(g, dep)
              ELSE g
    IN  AddDependency(g1, module_id, dep.path, dep.dependency)

\* IntegrateDep with line 134 moved into the branch of line 105: an edge is
\* added only to a target seen for the first time
IntegrateDepEdgeOnce(g, module_id, dep) ==
    IF ~HasModule(g, dep.path)
    THEN AddDependency(IF dep.external # None
                       THEN AddModule(g, ExternalModule(dep))
                       ELSE AddModule(PushTask(g, dep), Placeholder(dep)),
                       module_id, dep.path, dep.dependency)
    ELSE g

\* one iteration of deps.iter().for_each
IntegrateDep(g, module_id, dep) ==
    LET g1 == IF ~HasModule(g, dep.path)
              THEN IF dep.external # None
                   THEN AddModule(g, ExternalModule(dep))
                   ELSE AddModule(PushTask(g, dep), Placeholder(dep))
              ELSE g
    IN  AddDependency(g1, module_id, dep.path, dep.dependency)

RECURSIVE IntegrateDeps(_, _, _)
IntegrateDeps(g, module_id, deps) ==
    IF deps = << >> THEN g
    ELSE IntegrateDeps(IntegrateDep(g, module_id, Head(deps)), module_id, Tail(deps))

\* current module
IntegrateModule(g, module, task) ==
    IF task.is_entry
    THEN AddModule(g, module)
    ELSE AddInfo(g, module.id, module.info)

Integrate(g, result) ==
    IntegrateDeps(IntegrateModule(g, result.module, result.task),
                  result.module.id, result.deps)

Graph == [nodes |-> nodes, id_index_map |-> id_index_map, edges |-> edges, queue |-> queue]

(***************************************************************************)
(* Initial state: after seeding the queue (lines 41-65).                   *)
(***************************************************************************)
\* lines 50-56: one entry task per path
EntryTasks(paths) == [i \in 1 .. Len(paths) |-> [path |-> paths[i], is_entry |-> TRUE]]

\* nothing but the build is going on: the channel has a sender, nobody holds
\* the lock, the assets plugin is not called
Quiet ==
    /\ closed = FALSE
    /\ lock = "free"
    /\ plugin = [state |-> "idle"]

InitWith(failures, n, k) ==
    /\ entries \in EntryLists(k)
    /\ config = [entry |-> entries, files |-> {}, utf8 |-> TRUE]
    /\ injected = [m \in Modules |-> << >>]
    /\ Quiet
    /\ imports \in ImportRelations(n)
    \* a file that is never read has no bearing on the build: it is left empty
    /\ \A m \in Modules : imports[m] # << >> => m \in Reachable(Range(entries), imports)
    /\ failing \in failures
    /\ queue = EntryTasks(entries)
    /\ running = [t \in Tasks |-> 0]
    /\ chan = << >>
    /\ active_task_count = 0
    /\ module_count = [t \in Targets |-> 0]
    /\ nodes = << >>
    /\ id_index_map = [t \in Targets |-> 0]
    /\ edges = << >>
    /\ pc = "loop"

\* every pipeline execution succeeds
Init == InitWith({{}}, MaxImports, MaxEntries)

\* the same, for the smaller projects of the liveness check
InitLive == InitWith({{}}, MaxLiveImports, MaxLiveEntries)

\* one module cannot be loaded, parsed or resolved
InitFail == InitWith({{m} : m \in Modules}, MaxImports, MaxEntries)

(***************************************************************************)
(* Seeding (lines 41-56) and get_entries (lines 198-216).                  *)
(***************************************************************************)
\* the conventional entry files, in the order get_entries tries them
DefaultEntryFiles == << "src/index.tsx", "src/index.ts", "index.tsx", "index.ts" >>

\* get_entries: None, or Some(the entry paths); a path is named as
\* tests::build prints it, without the root it is joined to
GetEntries(cfg) ==
    IF cfg.entry = << >>
    THEN LET found == {i \in 1 .. Len(DefaultEntryFiles) : DefaultEntryFiles[i] \in cfg.files}
         IN  IF found = {} THEN None
             ELSE Some(<< DefaultEntryFiles[CHOOSE i \in found : \A j \in found : i <= j] >>)
    ELSE Some(cfg.entry)

\* the state before build_module_graph looks for its entries
InitSeed ==
    /\ config \in [entry : SeqsUpTo(Modules, MaxEntries),
                   files : SUBSET Range(DefaultEntryFiles),
                   utf8 : BOOLEAN]
    /\ entries = << >>
    /\ imports = [m \in Modules |-> << >>]
    /\ injected = [m \in Modules |-> << >>]
    /\ failing = {}
    /\ Quiet
    /\ queue = << >>
    /\ running = [t \in Tasks |-> 0]
    /\ chan = << >>
    /\ active_task_count = 0
    /\ module_count = [t \in Targets |-> 0]
    /\ nodes = << >>
    /\ id_index_map = [t \in Targets |-> 0]
    /\ edges = << >>
    /\ pc = "seed"

\* lines 41-56: the entries are found and the queue is seeded
Seed ==
    /\ pc = "seed"
    /\ GetEntries(config) # None
    /\ GetEntries(config)[1] # << >>
    /\ config.utf8
    /\ entries' = GetEntries(config)[1]
    /\ queue' = EntryTasks(GetEntries(config)[1])
    /\ pc' = "loop"
    /\ UNCHANGED << imports, failing, config, injected, closed, plugin, lock, running, chan,
                    active_task_count, module_count, nodes, id_index_map, edges >>

\* lines 42-45: expect("entry not found") and panic!("entry not found");
\* line 53: to_str().unwrap() on the first entry path that is not UTF-8
SeedPanic ==
    /\ pc = "seed"
    /\ \/ GetEntries(config) = None
       \/ GetEntries(config) = Some(<< >>)
       \/ ~config.utf8
    /\ pc' = "panic"
    /\ UNCHANGED << inputs, lock, queue, running, chan, active_task_count, module_count,
                    nodes, id_index_map, edges >>

SeedNext == Seed \/ SeedPanic

\* build_module_graph up to the first iteration of its loop
SeedSpec == InitSeed /\ [][SeedNext]_vars

(***************************************************************************)
(* The coordinator: one iteration of the loop of line 66 takes the graph's *)
(* write lock, drains the queue and polls the channel once.                *)
(***************************************************************************)
\* the tasks of a queue as a bag
RECURSIVE Spawned(_, _)
Spawned(bag, tasks) ==
    IF tasks = << >> THEN bag
    ELSE Spawned([bag EXCEPT ![Head(tasks)] = @ + 1], Tail(tasks))

RECURSIVE Counted(_, _)
Counted(count, tasks) ==
    IF tasks = << >> THEN count
    ELSE Counted([count EXCEPT ![Head(tasks).path] = @ + 1], Tail(tasks))

\* lines 68-82: while let Some(task) = queue.pop_front(), every queued task
\* is spawned
SpawnStep ==
    /\ pc = "loop"
    /\ queue # << >>
    /\ queue' = << >>
    /\ running' = Spawned(running, queue)
    /\ active_task_count' = active_task_count + Len(queue)
    /\ module_count' = Counted(module_count, queue)
    /\ UNCHANGED << inputs, chan, nodes, id_index_map, edges, pc >>

\* Spawn with line 69 moved out of the while loop: the counter is
\* incremented once per drain of the queue
SpawnCountOnce ==
    /\ pc = "loop"
    /\ queue # << >>
    /\ queue' = << >>
    /\ running' = Spawned(running, queue)
    /\ active_task_count' = active_task_count + 1
    /\ module_count' = Counted(module_count, queue)
    /\ UNCHANGED << inputs, lock, chan, nodes, id_index_map, edges, pc >>

Spawn == SpawnStep /\ UNCHANGED lock

\* RecvOk with line 136 lost: the in-flight counter is not decremented
RecvOkNoDecrement ==
    /\ pc = "loop"
    /\ queue = << >>
    /\ chan # << >>
    /\ LET g == Integrate(Graph, Head(chan)) IN
        /\ nodes' = g.nodes
        /\ id_index_map' = g.id_index_map
        /\ edges' = g.edges
        /\ queue' = g.queue
    /\ chan' = Tail(chan)
    /\ UNCHANGED << inputs, running, module_count, active_task_count, pc, lock >>

\* lines 83-139: try_recv returned a result
RecvOkStep ==
    /\ pc = "loop"
    /\ queue = << >>
    /\ chan # << >>
    /\ LET g == Integrate(Graph, Head(chan)) IN
        /\ nodes' = g.nodes
        /\ id_index_map' = g.id_index_map
        /\ edges' = g.edges
        /\ queue' = g.queue
    /\ chan' = Tail(chan)
    /\ active_task_count' = active_task_count - 1
    /\ UNCHANGED << inputs, running, module_count, pc >>

RecvOk == RecvOkStep /\ UNCHANGED lock

\* RecvEmpty with the test of line 143 lost: the loop is left as soon as the
\* channel is found empty
RecvEmptyNoCount ==
    /\ pc = "loop"
    /\ queue = << >>
    /\ chan = << >>
    /\ ~closed
    /\ pc' = "done"
    /\ UNCHANGED << inputs, lock, queue, running, chan, active_task_count, module_count,
                    nodes, id_index_map, edges >>

\* lines 140-146: the channel is empty and some sender is left; with tasks in
\* flight the loop polls again and nothing changes
RecvEmptyStep ==
    /\ pc = "loop"
    /\ queue = << >>
    /\ chan = << >>
    /\ ~closed
    /\ pc' = IF active_task_count = 0 THEN "done" ELSE "loop"
    /\ UNCHANGED << inputs, queue, running, chan, active_task_count, module_count,
                    nodes, id_index_map, edges >>

RecvEmpty == RecvEmptyStep /\ UNCHANGED lock

(***************************************************************************)
(* The spawned pipeline executions (lines 75-80).                          *)
(***************************************************************************)
\* build_module returned and the result is sent
Send(task) ==
    /\ running[task] > 0
    /\ task.path \notin failing
    /\ running' = [running EXCEPT ![task] = @ - 1]
    /\ chan' = Append(chan, BuildModule(task))
    /\ UNCHANGED << inputs, queue, active_task_count, module_count,
                    nodes, id_index_map, edges, pc, lock >>

\* build_module panicked: the task ends and sends nothing
Panic(task) ==
    /\ running[task] > 0
    /\ task.path \in failing
    /\ running' = [running EXCEPT ![task] = @ - 1]
    /\ UNCHANGED << inputs, queue, chan, active_task_count, module_count,
                    nodes, id_index_map, edges, pc, lock >>

Pipeline == \E task \in Tasks : Send(task)

PipelineFail == \E task \in Tasks : Panic(task)

Coordinator == Spawn \/ RecvOk \/ RecvEmpty

Next == Coordinator \/ Pipeline

NextFail == Coordinator \/ Pipeline \/ PipelineFail

\* the build of a project all of whose modules load, parse and resolve
Spec == Init /\ [][Next]_vars

\* the runtime keeps scheduling the coordinator's loop and every spawned task
Fairness == WF_vars(Coordinator) /\ WF_vars(Pipeline)

FairSpec == InitLive /\ [][Next]_vars /\ Fairness

\* the build of a project one module of which makes its pipeline panic
FailSpec == InitFail /\ [][NextFail]_vars /\ Fairness /\ WF_vars(PipelineFail)

(***************************************************************************)
(* The Disconnected arm (lines 147-149).  The coordinator owns the sender  *)
(* rs for the whole loop (line 58; the tasks get clones, line 74), so      *)
(* closed stays FALSE and the arm is never taken.                          *)
(***************************************************************************)
\* lines 147-149: Err(TryRecvError::Disconnected) => break
RecvDisconnected ==
    /\ pc = "loop"
    /\ queue = << >>
    /\ chan = << >>
    /\ closed
    /\ pc' = "done"
    /\ UNCHANGED << inputs, lock, queue, running, chan, active_task_count, module_count,
                    nodes, id_index_map, edges >>

(***************************************************************************)
(* Builds whose transform injects runtime helpers.                         *)
(***************************************************************************)
\* the helper injections considered: none, or one helper into one file
HelperInjections ==
    {[m \in Modules |-> << >>]}
        \union {[m \in Modules |-> IF m = f THEN << h >> ELSE << >>] : f, h \in Modules}

\* Init with the injections as one more input
InitHelper ==
    /\ entries \in EntryLists(MaxEntries)
    /\ config = [entry |-> entries, files |-> {}, utf8 |-> TRUE]
    /\ imports \in ImportRelations(MaxHelperImports)
    /\ injected \in HelperInjections
    /\ \A m \in Modules :
        (imports[m] # << >> \/ injected[m] # << >>)
            => m \in Reachable(Range(entries), [f \in Modules |-> imports[f] \o injected[f]])
    /\ failing = {}
    /\ Quiet
    /\ queue = EntryTasks(entries)
    /\ running = [t \in Tasks |-> 0]
    /\ chan = << >>
    /\ active_task_count = 0
    /\ module_count = [t \in Targets |-> 0]
    /\ nodes = << >>
    /\ id_index_map = [t \in Targets |-> 0]
    /\ edges = << >>
    /\ pc = "loop"

HelperSpec == InitHelper /\ [][Next]_vars

(***************************************************************************)
(* The graph's write lock (line 67).  The guard module_graph is a local of *)
(* the loop body: it is taken at the top of every iteration and dropped at *)
(* the end of it, also by the iterations that break.  The graph sits in    *)
(* the shared Context, so another thread may take the lock between two     *)
(* iterations; Reader is such a thread.                                    *)
(***************************************************************************)
\* line 67: module_graph.write() at the top of an iteration
Acquire ==
    /\ pc = "loop"
    /\ lock = "free"
    /\ lock' = "coordinator"
    /\ UNCHANGED << inputs, queue, running, chan, active_task_count, module_count,
                    nodes, id_index_map, edges, pc >>

\* lines 68-82, under the lock
LockedSpawn == lock = "coordinator" /\ SpawnStep /\ UNCHANGED lock

\* lines 83-139, then the guard is dropped at the end of the iteration
LockedRecvOk == lock = "coordinator" /\ RecvOkStep /\ lock' = "free"

\* lines 140-146, then the guard is dropped at the end of the iteration or
\* by the break
LockedRecvEmpty == lock = "coordinator" /\ RecvEmptyStep /\ lock' = "free"

\* module_graph.read() by another holder of the Context
ReadLock ==
    /\ lock = "free"
    /\ lock' = "reader"
    /\ UNCHANGED << inputs, queue, running, chan, active_task_count, module_count,
                    nodes, id_index_map, edges, pc >>

\* the reader drops its guard
ReadUnlock ==
    /\ lock = "reader"
    /\ lock' = "free"
    /\ UNCHANGED << inputs, queue, running, chan, active_task_count, module_count,
                    nodes, id_index_map, edges, pc >>

Reader == ReadLock \/ ReadUnlock

NextLock == Acquire \/ LockedSpawn \/ LockedRecvOk \/ LockedRecvEmpty \/ Pipeline \/ Reader

\* the build with its lock steps and a reader of the graph
LockSpec == InitLive /\ [][NextLock]_vars

(***************************************************************************)
(* plugins/assets.rs: AssetsPlugin::load (lines 17-35).                    *)
(***************************************************************************)
\* the extensions load refuses (line 18)
RefusedExtNames == {"sass", "scss", "stylus"}

\* some extensions a load parameter may carry
ExtNames == RefusedExtNames \union {"png", "css", "svg"}

\* Result and Content values
Ok(v) == [kind |-> "Ok", value |-> v]
Err(e) == [kind |-> "Err", value |-> e]
ContentJs(code) == [js |-> code]

\* the two outcomes handle_asset's Result<String> allows
AssetOutcomes == {Ok("asset"), Err("handle_asset failed")}

\* load with the file test of line 25 moved in front of the refusal of line 18
AssetsLoadFileFirst(param, files, asset) ==
    IF param.path \in files
    THEN IF asset.kind = "Err" THEN asset
         ELSE Ok(Some(ContentJs(<< "module.exports = ", asset.value, ";" >>)))
    ELSE IF param.ext_name # None /\ param.ext_name[1] \in RefusedExtNames
         THEN Err([error |-> "UnsupportedExtName",
                   ext_name |-> param.ext_name[1], path |-> param.path])
         ELSE Ok(None)

\* AssetsPlugin::load: files are the paths that are files, asset is what
\* handle_asset returns for the path
AssetsLoad(param, files, asset) ==
    IF param.ext_name # None /\ param.ext_name[1] \in RefusedExtNames
    THEN Err([error |-> "UnsupportedExtName",
              ext_name |-> param.ext_name[1], path |-> param.path])
    ELSE IF param.path \in files
         THEN IF asset.kind = "Err" THEN asset
              ELSE Ok(Some(ContentJs(<< "module.exports = ", asset.value, ";" >>)))
         ELSE Ok(None)

\* a call of load about to be made, no build going on
InitAssets ==
    /\ plugin \in [state : {"called"},
                   param : [ext_name : {None} \union {Some(e) : e \in ExtNames},
                            path : Modules],
                   files : SUBSET Modules,
                   asset : AssetOutcomes,
                   result : {None}]
    /\ entries = << >>
    /\ config = [entry |-> << >>, files |-> {}, utf8 |-> TRUE]
    /\ imports = [m \in Modules |-> << >>]
    /\ injected = [m \in Modules |-> << >>]
    /\ failing = {}
    /\ closed = FALSE
    /\ lock = "free"
    /\ queue = << >>
    /\ running = [t \in Tasks |-> 0]
    /\ chan = << >>
    /\ active_task_count = 0
    /\ module_count = [t \in Targets |-> 0]
    /\ nodes = << >>
    /\ id_index_map = [t \in Targets |-> 0]
    /\ edges = << >>
    /\ pc = "idle"

\* the call returns
Load ==
    /\ plugin.state = "called"
    /\ plugin' = [plugin EXCEPT !.state = "returned",
                                !.result = Some(AssetsLoad(plugin.param, plugin.files,
                                                           plugin.asset))]
    /\ UNCHANGED << entries, imports, failing, config, injected, closed, lock, queue, running,
                    chan, active_task_count, module_count, nodes, id_index_map, edges, pc >>

AssetsSpec == InitAssets /\ [][Load]_vars

(***************************************************************************)
(* What a caller sees of the graph once the build returned (tests::build). *)
(***************************************************************************)
\* run() returned through the break of line 144
Success == pc = "done"

\* how often each identifier is listed among the node weights
NodeListing(g) ==
    [id \in Targets |-> Cardinality({i \in 1 .. Len(g.nodes) : g.nodes[i].id = id})]

\* how often each "source -> target" line is listed among the edge references
EdgeListing(g) ==
    [p \in Targets \X Targets |->
        Cardinality({i \in 1 .. Len(g.edges) :
            << g.nodes[g.edges[i][1]].id, g.nodes[g.edges[i][2]].id >> = p})]

\* the "source -> target" lines, without their multiplicity
EdgePairs(g) ==
    {<< g.nodes[g.edges[i][1]].id, g.nodes[g.edges[i][2]].id >> : i \in 1 .. Len(g.edges)}

\* the loop run with every result received in the order the tasks were spawned
RECURSIVE RunInSpawnOrder(_, _)
RunInSpawnOrder(g, results) ==
    IF g.queue # << >>
    THEN RunInSpawnOrder([g EXCEPT !.queue = << >>],
                         results \o [i \in 1 .. Len(g.queue) |-> BuildModule(g.queue[i])])
    ELSE IF results # << >>
         THEN RunInSpawnOrder(Integrate(g, Head(results)), Tail(results))
         ELSE g

SeededGraph ==
    [nodes |-> << >>, id_index_map |-> [t \in Targets |-> 0], edges |-> << >>,
     queue |-> [i \in 1 .. Len(entries) |-> [path |-> entries[i], is_entry |-> TRUE]]]

ReachableIds == Reachable(Range(entries), imports)

(***************************************************************************)
(* The claims.                                                             *)
(***************************************************************************)

\* C1 (build-once): in every interleaving at most one pipeline execution is
\* spawned per module identifier during one run.
BuildOnce == \A id \in Targets : module_count[id] <= 1

\* C2 (no duplicate nodes): in every reachable state of the build the graph
\* holds at most one node per identifier.
NoDuplicateNodes ==
    \A i, j \in 1 .. Len(nodes) : nodes[i].id = nodes[j].id => i = j

\* C3 (determinism under reordering): at successful termination the node
\* listing and the edge listing are those of the run that receives the
\* results in spawn order, whatever order the results were received in.
DeterministicGraph ==
    Success =>
        LET g == RunInSpawnOrder(SeededGraph, << >>)
        IN  /\ NodeListing(Graph) = NodeListing(g)
            /\ EdgeListing(Graph) = EdgeListing(g)

\* C4 (no placeholder leakage): at successful termination every node has
\* its info.
NoPlaceholderLeak ==
    Success => \A i \in 1 .. Len(nodes) : nodes[i].info # None

\* C5 (termination): when every spawned pipeline execution sends its result
\* and the coordinator and the tasks are scheduled fairly, run() eventually
\* terminates successfully, cycles and self-imports included.
Termination == <>Success

\* C5 witness: a build of a project with an import cycle between two
\* modules, or with a self-import, has terminated.
TerminatedOnCycle ==
    /\ Success
    /\ \E m, n \in Modules :
        /\ n \in Range(imports[m])
        /\ m \in Range(imports[n])
        /\ module_count[m] = 1
        /\ module_count[n] = 1

\* C6 (failure propagation): once a pipeline execution that fails has been
\* spawned, run() eventually terminates instead of waiting forever.
FailurePropagation ==
    (\E m \in failing : module_count[m] > 0) ~> (pc = "done")

\* C7 (entry marking): at successful termination a node is marked is_entry
\* exactly when its identifier is one of the seeded entry paths.
EntryMarking ==
    Success =>
        \A i \in 1 .. Len(nodes) : nodes[i].is_entry <=> nodes[i].id \in Range(entries)

\* C8 (external synthesis): no Task is ever queued, spawned or answered for
\* an external target, and in every state a node of an external target has
\* its info, which is the export wrapper of exactly the external binding.
ExternalSynthesis ==
    /\ \A i \in 1 .. Len(queue) : queue[i].path \notin Externals
    /\ \A i \in 1 .. Len(chan) : chan[i].task.path \notin Externals
    /\ \A t \in Tasks : t.path \in Externals => running[t] = 0
    /\ \A id \in Externals : module_count[id] = 0
    /\ \A i \in 1 .. Len(nodes) :
        nodes[i].id \in Externals =>
            /\ nodes[i].info # None
            /\ nodes[i].info[1].external = Some(ExternalName(nodes[i].id))
            /\ nodes[i].info[1].ast = "export_wrapper"
            /\ ~nodes[i].is_entry

\* C8 witness: an external target was discovered and has its node, with an
\* edge from its importer.
ExternalInserted ==
    \E i \in 1 .. Len(edges) : nodes[edges[i][2]].id \in Externals

\* C9 (monotone node life cycle): info is attached to a node at most once:
\* whenever the coordinator receives the result of a non-entry task, the
\* node it attaches the info to has none yet; and no step removes a node or
\* takes the info of a node away.
MonotoneLifeCycle ==
    [][/\ (chan # << >> /\ chan' = Tail(chan) /\ ~Head(chan).task.is_entry) =>
            nodes[id_index_map[Head(chan).module.id]].info = None
       /\ Len(nodes') >= Len(nodes)
       /\ \A i \in 1 .. Len(nodes) :
            nodes[i].info # None => nodes'[i].info # None]_vars

\* C10 (final graph equals the reachable closure): at successful termination
\* the nodes are the identifiers reachable from the entries, each once, and
\* the edges are the (importer -> target) pairs of the built modules.
FinalGraphIsClosure ==
    Success =>
        /\ NodeListing(Graph) = [id \in Targets |-> IF id \in ReachableIds THEN 1 ELSE 0]
        /\ EdgePairs(Graph) =
            {p \in Modules \X Targets : p[1] \in ReachableIds /\ p[2] \in Range(imports[p[1]])}

\* C11 (seeding): once the entries were looked for, the queue holds exactly
\* one entry task per configured entry path; with an empty entry map, the one
\* entry is the first existing conventional file; and with an empty map and
\* no such file the build has failed with an error value (not a panic),
\* nothing spawned and the graph untouched.
Seeding ==
    pc # "seed" =>
        /\ config.entry # << >> =>
            /\ pc = "loop"
            /\ queue = EntryTasks(config.entry)
        /\ (config.entry = << >> /\ config.files # {}) =>
            /\ pc = "loop"
            /\ Len(queue) = 1
            /\ queue[1].is_entry
            /\ queue[1].path \in config.files
            /\ \A i, j \in 1 .. Len(DefaultEntryFiles) :
                (DefaultEntryFiles[i] \in config.files /\ DefaultEntryFiles[j] = queue[1].path)
                    => j <= i
        /\ (config.entry = << >> /\ config.files = {}) =>
            /\ pc = "error"
            /\ queue = << >>
            /\ \A id \in Targets : module_count[id] = 0
            /\ nodes = << >>

\* what a returned call of load gave back
LoadResult == plugin.result[1]

\* the call carried one of the refused extensions
Refused == plugin.param.ext_name # None /\ plugin.param.ext_name[1] \in RefusedExtNames

\* the refused extensions get the error value UnsupportedExtName with the
\* extension and the path, whether or not the file exists
RefusalIsAnErrorValue ==
    Refused =>
        /\ LoadResult.kind = "Err"
        /\ LoadResult.value = [error |-> "UnsupportedExtName",
                               ext_name |-> plugin.param.ext_name[1],
                               path |-> plugin.param.path]

\* any other extension on a path that is not a file is declined
DeclinesMissingFile ==
    (~Refused /\ plugin.param.path \notin plugin.files) => LoadResult = Ok(None)

\* C13 as stated (assets loader refusal): sass, scss and stylus get the
\* error value UnsupportedExtName whether or not the file exists; any other
\* extension returns content when the path is an existing file and declines
\* (no content, no error) when it is not.
AssetsLoaderRefusal ==
    plugin.state = "returned" =>
        /\ RefusalIsAnErrorValue
        /\ DeclinesMissingFile
        /\ (~Refused /\ plugin.param.path \in plugin.files) =>
            /\ LoadResult.kind = "Ok"
            /\ LoadResult.value # None

\* C13 amended: as stated, except that on an existing file load returns the
\* content only when handle_asset succeeds, and passes handle_asset's error
\* on when it fails.
AssetsLoaderRefusalOrError ==
    plugin.state = "returned" =>
        /\ RefusalIsAnErrorValue
        /\ DeclinesMissingFile
        /\ (~Refused /\ plugin.param.path \in plugin.files /\ plugin.asset.kind = "Ok") =>
            LoadResult = Ok(Some(ContentJs(<< "module.exports = ", plugin.asset.value, ";" >>)))
        /\ (~Refused /\ plugin.param.path \in plugin.files /\ plugin.asset.kind = "Err") =>
            LoadResult = plugin.asset

\* C13 witness: a refused extension on an existing file came back as the error
RefusedExistingFile ==
    /\ plugin.state = "returned"
    /\ Refused
    /\ plugin.param.path \in plugin.files
    /\ LoadResult.kind = "Err"

\* C14 (fixpoint at termination): whenever the build has terminated
\* successfully, the queue is empty, no pipeline execution is running, no
\* result is left unreceived in the channel, and the source and the target of
\* every edge are nodes of the graph.
FixpointAtTermination ==
    Success =>
        /\ queue = << >>
        /\ \A t \in Tasks : running[t] = 0
        /\ chan = << >>
        /\ \A i \in 1 .. Len(edges) :
            /\ edges[i][1] \in 1 .. Len(nodes)
            /\ edges[i][2] \in 1 .. Len(nodes)

\* C14 witness: a build of several modules with edges has terminated
FixpointWithEdges ==
    /\ Success
    /\ Len(nodes) >= 3
    /\ Len(edges) >= 2

\* C15 (placeholder exists before its result): every result of a non-entry
\* task that the coordinator has yet to integrate is for an identifier that
\* already has a node, so the lookup of the integration step finds it.
PlaceholderBeforeResult ==
    \A i \in 1 .. Len(chan) :
        ~chan[i].task.is_entry =>
            /\ HasModule(Graph, chan[i].module.id)
            /\ id_index_map[chan[i].module.id] \in 1 .. Len(nodes)
            /\ nodes[id_index_map[chan[i].module.id]].id = chan[i].module.id

\* C15 witness: the result of a non-entry task is next to be integrated and
\* its node is still the placeholder
ResultMeetsPlaceholder ==
    /\ chan # << >>
    /\ ~Head(chan).task.is_entry
    /\ HasModule(Graph, Head(chan).module.id)
    /\ nodes[id_index_map[Head(chan).module.id]].info = None

\* C16 (edges added unconditionally, never de-duplicated): the integration
\* of a result with k dependencies appends exactly k edges, the i-th from the
\* importer's node to the node of the i-th dependency, whether that node is
\* new or not and also when two dependencies have the same target; the edges
\* that were there are kept as they were.
EdgesAppended ==
    [][Len(chan') < Len(chan) =>
        LET result == Head(chan)
            k == Len(result.deps)
        IN  /\ Len(edges') = Len(edges) + k
            /\ SubSeq(edges', 1, Len(edges)) = edges
            /\ \A i \in 1 .. k :
                edges'[Len(edges) + i] = << id_index_map'[result.module.id],
                                            id_index_map'[result.deps[i].path],
                                            result.deps[i].dependency >>]_vars

\* C16 witness: two edges of the graph have the same source and the same
\* target
ParallelEdges ==
    \E i, j \in 1 .. Len(edges) :
        /\ i < j
        /\ edges[i][1] = edges[j][1]
        /\ edges[i][2] = edges[j][2]

\* some pipeline execution has been spawned: the build loop has started
LoopStarted == \E id \in Targets : module_count[id] > 0

\* C17 (exclusive graph ownership): from the start of the build loop until
\* the build returns the coordinator holds the graph's write lock, and a
\* reader that holds the lock never finds a placeholder node in the graph.
ExclusiveGraphOwnership ==
    /\ (LoopStarted /\ pc = "loop") => lock = "coordinator"
    /\ lock = "reader" => \A i \in 1 .. Len(nodes) : nodes[i].info # None

\* C18 (helper augmentation and stage order): every result a pipeline
\* execution returns lists the resolved specifiers of the source followed by
\* those of the helpers the transform injected and the source did not
\* require, the dependency analysis having run before the transform and the
\* augmentation after it; and at successful termination the graph has an edge
\* from every built module to each helper its transform injected.
HelperAugmentation ==
    /\ \A i \in 1 .. Len(chan) :
        LET p == chan[i].task.path
            new == SelectSeq(injected[p], LAMBDA h : h \notin Range(imports[p]))
            all == imports[p] \o new
        IN  chan[i].deps = [k \in 1 .. Len(all) |-> Resolve(all[k])]
    /\ Success =>
        \A m \in Modules :
            module_count[m] > 0 =>
                \A h \in Range(injected[m]) : << m, h >> \in EdgePairs(Graph)

\* C18 witness: a build has terminated with an edge to a helper that the
\* source of the importing module does not require
HelperEdge ==
    /\ Success
    /\ \E m \in Modules :
        \E h \in Range(injected[m]) :
            /\ h \notin Range(imports[m])
            /\ << m, h >> \in EdgePairs(Graph)

\* the sum of a function of numbers over a set of its arguments
RECURSIVE SumOver(_, _)
SumOver(f, S) ==
    IF S = {} THEN 0
    ELSE LET x == CHOOSE y \in S : TRUE IN f[x] + SumOver(f, S \ {x})

\* the spawned pipeline executions whose result is not integrated yet
InFlight == SumOver(running, Tasks) + Len(chan)

\* C19 (in-flight counter accuracy): with all pipelines succeeding, the
\* in-flight counter always is the number of spawned executions whose result
\* is not integrated yet (running, or sent and unreceived) and is never
\* negative; a drain of the queue adds one per dequeued task and the
\* integration of a result subtracts exactly one.
CounterAccuracy ==
    /\ [](active_task_count = InFlight /\ active_task_count >= 0)
    /\ [][/\ Len(queue') < Len(queue) =>
                active_task_count' = active_task_count + (Len(queue) - Len(queue'))
          /\ Len(chan') < Len(chan) => active_task_count' = active_task_count - 1]_vars

\* C19 witness: several executions are counted, some running and some with
\* their result sent and unreceived
CountedRunningAndSent ==
    /\ active_task_count >= 2
    /\ chan # << >>
    /\ \E t \in Tasks : running[t] > 0

\* the non-entry tasks for an identifier that are queued, running or have an
\* unreceived result
Pending(id) ==
    Cardinality({i \in 1 .. Len(queue) : queue[i] = [path |-> id, is_entry |-> FALSE]})
        + running[[path |-> id, is_entry |-> FALSE]]
        + Cardinality({i \in 1 .. Len(chan) : chan[i].task = [path |-> id, is_entry |-> FALSE]})

\* the placeholder nodes of an identifier
Placeholders(id) == {i \in 1 .. Len(nodes) : nodes[i].id = id /\ nodes[i].info = None}

\* C20 (placeholder/pending-task correspondence): in every reachable state
\* an identifier has a placeholder node exactly when a non-entry task for it
\* is queued, running or has an unreceived result, and then it has exactly
\* one such node and exactly one such task.
PlaceholderTaskCorrespondence ==
    \A id \in Targets :
        /\ Placeholders(id) # {} <=> Pending(id) > 0
        /\ Cardinality(Placeholders(id)) <= 1
        /\ Pending(id) <= 1

====
